---- MODULE Spec2Model ----
(***************************************************************************)
(* Model of the hybrid recommendation engine of movie-recommender          *)
(* (backend/app/recommender/engine.py): the MovieRecommender object, its   *)
(* two retrain operations, its three query operations and the              *)
(* GET /recommendations/{user_id} route that serves them.                  *)
(*                                                                         *)
(* The specifications share the variables:                                 *)
(*   Spec      - the engine object as the code builds and queries it.      *)
(*   SpecMerge - the body of get_hybrid_recommendations from line 88 on    *)
(*               (the merge loop), run one loop pass at a time on          *)
(*               candidate lists drawn from bounded sets, i.e. with the    *)
(*               two component queries of lines 78-86 stubbed.             *)
(*   SpecConcurrent - prepare_content_features stepped at its two          *)
(*               assignments, with reads from another thread between.      *)
(*   SpecApp   - the two MovieRecommender instances of the application     *)
(*               (engine.py:113 and main.py:41) and the routes on them.    *)
(*   SpecSeeds - the seed loop of get_hybrid_recommendations, lines 78-81, *)
(*               one seed at a time on a built index.                      *)
(*   SpecRate  - POST /movies/{movie_id}/rate on the ratings table.        *)
(*   SpecPopularity - concurrent update_movie_popularity_optimized calls.  *)
(*   SpecCache - GET /movies/ with movie_cache.                            *)
(*   SpecHistory - the viewing history and the seeds of                    *)
(*               GET /movies/recommended/.                                 *)
(*   SpecFetch, SpecFetchFair - fetch_imdb_data, one request at a time.    *)
(*   SpecBatch - one batch of load_initial_movies_optimized.               *)
(***************************************************************************)
EXTENDS Integers, Sequences, FiniteSets, TLC

\* ------------------------------------------------------------------ bounds
NumMovieIds == 3
MaxN == 3
MaxViewed == 2
MaxRecs == 2
MaxSeedViewed == 4

MovieIds == 1..NumMovieIds
\* user 3 is not a row of the users table
UserIds == {1, 2, 3}
\* A document is the set of vocabulary terms (stop words removed) of the text
\* "title genres director cast description" of engine.py:27-30; {} is a text
\* made of stop words only.
Docs == {{}, {1}, {1, 2}}

\* ----------------------------------------------------------------- helpers
Range(s) == {s[i] : i \in DOMAIN s}

SeqsUpTo(S, k) == UNION {[1..j -> S] : j \in 0..k}

Min(a, b) == IF a <= b THEN a ELSE b

IsInjective(s) == \A i, j \in DOMAIN s : s[i] = s[j] => i = j

Reverse(s) == [i \in 1..Len(s) |-> s[Len(s) + 1 - i]]

\* Python's s[a:b] for 0 <= a, 0 <= b (0-based, b exclusive)
Slice(s, a, b) == [i \in 1..(Min(b, Len(s)) - Min(a, Min(b, Len(s)))) |-> s[a + i]]

\* Mutant of LastK: s[:k], the first k entries
FirstK(s, k) == Slice(s, 0, k)

\* Python's s[-k:] for k > 0
LastK(s, k) == IF Len(s) <= k THEN s ELSE [i \in 1..k |-> s[Len(s) - k + i]]

\* ------------------------------------------------------------------- state
VARIABLES
    movies_df,                  \* self.movies_df: [isNone, ids]; row i holds movie ids[i]
    content_similarity_matrix,  \* self.content_similarity_matrix; <<>> is None
    collaborative_model,        \* self.collaborative_model: [fitted, trainset]
    db,                         \* the database rows the route reads: users (with
                                \* user.user_ratings as movie ids) and movies
    response,                   \* the call in flight on the shared instance and its outcome
    pc,                         \* position in the merge loop of get_hybrid_recommendations
    n_recommendations, recently_viewed, content_recs, collab_recs,
    hybrid_recs, seen_movies, content_idx, collab_idx,
    building,                   \* the prepare_content_features call between its two
                                \* assignments (lines 24 and 34): [active, movies,
                                \* replaced], replaced being the table line 24 overwrote
    main_recommender,           \* the second instance, main.py:41
    seeds_left,                 \* the rest of recently_viewed[-3:] in the for loop of line 80
    similar_lists,              \* what each seed's call returned at line 81, in call order
    tasks,                      \* the calls running side by side on the database:
                                \* task -> its position and locals
    movie_cache,                \* movie_cache.cache of main.py:106: key -> entry
    fetch_call                  \* the frame of the running fetch_imdb_data call

engine_vars == <<movies_df, content_similarity_matrix, collaborative_model>>
merge_vars == <<pc, n_recommendations, recently_viewed, content_recs, collab_recs,
                hybrid_recs, seen_movies, content_idx, collab_idx>>
app_vars == <<building, main_recommender, seeds_left, similar_lists>>
side_vars == <<tasks, movie_cache, fetch_call>>
vars == <<movies_df, content_similarity_matrix, collaborative_model, db,
          response, pc, n_recommendations, recently_viewed, content_recs,
          collab_recs, hybrid_recs, seen_movies, content_idx, collab_idx,
          building, main_recommender, seeds_left, similar_lists,
          tasks, movie_cache, fetch_call>>

NoMatrix == <<>>

\* SVD(n_factors=100) before fit: no trainset attribute yet. After fit the
\* model holds the ratings it was trained on.
Unfitted == [fitted |-> FALSE, trainset |-> {}]

\* A MovieRecommender as __init__ leaves it, lines 16-20
Constructed ==
    [movies_df |-> [isNone |-> TRUE, ids |-> <<>>],
     content_similarity_matrix |-> NoMatrix,
     collaborative_model |-> Unfitted]

\* No fetch_imdb_data call in progress
NoFetch == [pc |-> "none", retry_count |-> 0, imdb_id |-> FALSE, sleeps |-> <<>>,
            requests |-> <<>>, result |-> "none"]

NotBuilding == [active |-> FALSE, movies |-> <<>>, replaced |-> [isNone |-> TRUE, ids |-> <<>>]]

Returned(v) == [kind |-> "return", value |-> v, error |-> "none"]
Raised(e) == [kind |-> "raise", value |-> <<>>, error |-> e]

Call(op, id, viewed, n, outcome) ==
    [op |-> op, id |-> id, viewed |-> viewed, n |-> n, outcome |-> outcome]
NoCall == Call("none", 0, <<>>, 0, Returned(<<>>))

\* --------------------------------------------------- content feature index
\* The movie dicts handed to prepare_content_features: distinct ids, any row order.
MovieRecords == [id : MovieIds, doc : Docs]
MovieLists == {ml \in SeqsUpTo(MovieRecords, NumMovieIds) :
                 \A i, j \in DOMAIN ml : ml[i].id = ml[j].id => i = j}

\* fit_transform raises ValueError("empty vocabulary") when no document has a term
FittedVocabulary(movies) == UNION {movies[i].doc : i \in DOMAIN movies}

\* cosine_similarity of two TF-IDF rows, as the square of the cosine under unit
\* term weights, scaled to an integer: 0 for an all-zero row or disjoint
\* documents, the maximum for identical documents.
SimScale == Cardinality(UNION Docs) * Cardinality(UNION Docs)
CosineSimilarity(d1, d2) ==
    IF d1 = {} \/ d2 = {} THEN 0
    ELSE (SimScale * Cardinality(d1 \cap d2) * Cardinality(d1 \cap d2))
             \div (Cardinality(d1) * Cardinality(d2))

CosineSimilarityMatrix(movies) ==
    [i \in 1..Len(movies) |-> [j \in 1..Len(movies) |->
        CosineSimilarity(movies[i].doc, movies[j].doc)]]

\* np.argsort(row): the row indices in ascending order of value. The default
\* kind (quicksort) is not stable, so equal values may come in any order.
Argsort(row) ==
    {p \in Permutations(DOMAIN row) :
        \A i, j \in DOMAIN row : i < j => row[p[i]] <= row[p[j]]}

\* [::-1][1:n_recommendations+1] applied to the argsort result
SimilarMovieIndices(order, n) == Slice(Reverse(order), 1, n + 1)

\* self.movies_df[self.movies_df['id'] == movie_id].index[0]
MovieIdx(ids, movie_id) ==
    CHOOSE i \in DOMAIN ids : ids[i] = movie_id /\ \A j \in 1..(i - 1) : ids[j] # movie_id

\* self.movies_df.iloc[similar_movie_indices]['id'].tolist()
IlocIds(ids, indices) ==
    IF \E k \in DOMAIN indices : indices[k] > Len(ids)
    THEN Raised("IndexError")
    ELSE Returned([k \in DOMAIN indices |-> ids[indices[k]]])

\* get_content_based_recommendations(movie_id, n): every outcome the call can have
GetContentBasedRecommendations(df, matrix, movie_id, n) ==
    IF df.isNone THEN {Raised("TypeError")}
    ELSE IF df.ids = <<>> THEN {Raised("KeyError")}
    ELSE IF movie_id \notin Range(df.ids) THEN {Raised("IndexError")}
    ELSE IF matrix = NoMatrix THEN {Raised("TypeError")}
    ELSE IF MovieIdx(df.ids, movie_id) > Len(matrix) THEN {Raised("IndexError")}
    ELSE {IlocIds(df.ids, SimilarMovieIndices(order, n)) :
            order \in Argsort(matrix[MovieIdx(df.ids, movie_id)])}

\* get_collaborative_recommendations(user_id, n): self.ratings_df is read at
\* line 58 and is assigned nowhere (train_collaborative_model keeps its frame
\* in a local), so the call raises once self.movies_df['id'] has been read.
GetCollaborativeRecommendations(df, model, user_id, n) ==
    IF df.isNone THEN {Raised("TypeError")}
    ELSE IF df.ids = <<>> THEN {Raised("KeyError")}
    ELSE {Raised("AttributeError")}

\* --------------------------------------------------------- hybrid merge
\* The locals of get_hybrid_recommendations at line 93, before the first pass
MergeStart(viewed) ==
    [hybrid_recs |-> <<>>, seen_movies |-> Range(viewed), content_idx |-> 0, collab_idx |-> 0]

\* Mutant of LoopCondition: the length test of line 94 dropped
LoopConditionNoLimit(st, content, collab, n) ==
    st.content_idx < Len(content) \/ st.collab_idx < Len(collab)

\* The while condition of line 94
LoopCondition(st, content, collab, n) ==
    /\ Len(st.hybrid_recs) < n
    /\ (st.content_idx < Len(content) \/ st.collab_idx < Len(collab))

\* Mutant of ContentHalf: the seen_movies test of line 97 dropped
ContentHalfNoSeen(st, content) ==
    IF st.content_idx < Len(content)
    THEN [st EXCEPT !.hybrid_recs = Append(@, content[st.content_idx + 1]),
                    !.seen_movies = @ \cup {content[st.content_idx + 1]},
                    !.content_idx = @ + 1]
    ELSE st

\* Lines 95-100: the content half of one pass
ContentHalf(st, content) ==
    IF st.content_idx < Len(content)
    THEN LET movie_id == content[st.content_idx + 1]
         IN  IF movie_id \notin st.seen_movies
             THEN [st EXCEPT !.hybrid_recs = Append(@, movie_id),
                             !.seen_movies = @ \cup {movie_id},
                             !.content_idx = @ + 1]
             ELSE [st EXCEPT !.content_idx = @ + 1]
    ELSE st

\* Lines 102-107: the collaborative half of one pass
CollabHalf(st, collab) ==
    IF st.collab_idx < Len(collab)
    THEN LET movie_id == collab[st.collab_idx + 1]
         IN  IF movie_id \notin st.seen_movies
             THEN [st EXCEPT !.hybrid_recs = Append(@, movie_id),
                             !.seen_movies = @ \cup {movie_id},
                             !.collab_idx = @ + 1]
             ELSE [st EXCEPT !.collab_idx = @ + 1]
    ELSE st

\* Mutant of LoopBody: the collaborative half taken first
LoopBodyCollabFirst(st, content, collab) == ContentHalf(CollabHalf(st, collab), content)

\* One pass of the loop body, lines 95-107
LoopBody(st, content, collab) == CollabHalf(ContentHalf(st, content), collab)

\* Lines 88-109 run to the return
RECURSIVE MergeLoop(_, _, _, _)
MergeLoop(st, content, collab, n) ==
    IF LoopCondition(st, content, collab, n)
    THEN MergeLoop(LoopBody(st, content, collab), content, collab, n)
    ELSE st.hybrid_recs

\* n_recommendations//2 of lines 81 and 85
HalfN(n) == n \div 2

\* Lines 79-81: the content candidates of the seeds, or the first error raised
RECURSIVE ContentRecs(_, _, _, _)
ContentRecs(df, matrix, seeds, n) ==
    IF seeds = <<>> THEN {Returned(<<>>)}
    ELSE {IF f.kind = "raise" THEN f
          ELSE IF r.kind = "raise" THEN r
          ELSE Returned(f.value \o r.value) :
            f \in GetContentBasedRecommendations(df, matrix, Head(seeds), HalfN(n)),
            r \in ContentRecs(df, matrix, Tail(seeds), n)}

\* get_hybrid_recommendations(user_id, recently_viewed, n): every outcome
GetHybridRecommendations(df, matrix, model, user_id, viewed, n) ==
    {IF c.kind = "raise" THEN c
     ELSE IF k.kind = "raise" THEN k
     ELSE Returned(MergeLoop(MergeStart(viewed), c.value, k.value, n)) :
        c \in ContentRecs(df, matrix, LastK(viewed, 3), n),
        k \in GetCollaborativeRecommendations(df, model, user_id, HalfN(n))}

\* ------------------------------------------------ GET /recommendations/{id}
SeedCount == 3
RecentRatings == 10
RouteLimit == 10
DefaultN == 10

\* db.query(Movie).order_by(average_rating.desc(), view_count.desc()).limit(10):
\* rows equal on both keys come in an order the database chooses
TrendingMovies(movies) ==
    {Slice(p, 0, RouteLimit) :
        p \in {q \in Permutations(DOMAIN movies) :
                 \A i, j \in DOMAIN movies : i < j =>
                    \/ movies[q[i]].average_rating > movies[q[j]].average_rating
                    \/ /\ movies[q[i]].average_rating = movies[q[j]].average_rating
                       /\ movies[q[i]].view_count >= movies[q[j]].view_count}}

\* RecommendationResponse(recommendations=..., generated_at=...) of lines 179
\* and 208: app.schemas.RecommendationResponse requires user_id and
\* strategy_used, which neither call passes, so pydantic rejects it.
RecommendationResponse(ids) == Raised("ValidationError")

\* Lines 187-206: the recommended ids that have a row in the movies table, in
\* the order of recommended_ids
RecommendedWithRows(recommended_ids, movies) ==
    SelectSeq(recommended_ids, LAMBDA movie_id : movie_id \in DOMAIN movies)

\* get_recommendations(user_id), lines 146-216: every outcome
GetRecommendations(df, matrix, model, database, user_id) ==
    IF user_id \notin DOMAIN database.users THEN {Raised("HTTPException404")}
    ELSE LET viewed == LastK(database.users[user_id], RecentRatings)
         IN  IF viewed = <<>>
             THEN {RecommendationResponse(t) : t \in TrendingMovies(database.movies)}
             ELSE {IF h.kind = "raise" THEN h
                   ELSE RecommendationResponse(RecommendedWithRows(h.value, database.movies)) :
                     h \in GetHybridRecommendations(df, matrix, model, user_id, viewed, DefaultN)}

\* ------------------------------------------------------------ engine: Spec
RatingRecords == [user_id : {1, 2}, movie_id : MovieIds, rating : {1, 5}]
RatingLists == SeqsUpTo(RatingRecords, 1)
\* recently_viewed as both routes build it: movie ids of the user's rating or
\* viewing rows, one row per (user, movie)
ViewedLists == {v \in SeqsUpTo(MovieIds, MaxViewed) : IsInjective(v)}

\* The rows the route reads: user 1 has rated nothing, user 2 has rated movies
\* 1 and 2; no row for user 3.
DbRows ==
    [users |-> (1 :> <<>>) @@ (2 :> <<1, 2>>),
     movies |-> [i \in MovieIds |-> [average_rating |-> i % 2, view_count |-> i \div 2]]]

MergeIdle ==
    /\ pc = "idle"
    /\ n_recommendations = 0
    /\ recently_viewed = <<>>
    /\ content_recs = <<>>
    /\ collab_recs = <<>>
    /\ hybrid_recs = <<>>
    /\ seen_movies = {}
    /\ content_idx = 0
    /\ collab_idx = 0

\* MovieRecommender.__init__, lines 16-20
EngineConstructed ==
    /\ movies_df = [isNone |-> TRUE, ids |-> <<>>]
    /\ content_similarity_matrix = NoMatrix
    /\ collaborative_model = Unfitted

\* No prepare in flight, the second instance as constructed, no seed loop running
\* No side task, an empty cache, no fetch_imdb_data call
SideIdle ==
    /\ tasks = <<>>
    /\ movie_cache = <<>>
    /\ fetch_call = NoFetch

AppIdle ==
    /\ building = NotBuilding
    /\ main_recommender = Constructed
    /\ seeds_left = <<>>
    /\ similar_lists = <<>>

Init ==
    /\ EngineConstructed
    /\ db = DbRows
    /\ response = NoCall
    /\ MergeIdle
    /\ AppIdle
    /\ SideIdle

\* prepare_content_features(movies), lines 22-34: movies_df is assigned at
\* line 24, the matrix at line 34 after fit_transform, which may raise
PrepareContentFeatures(movies) ==
    /\ response = NoCall
    /\ movies_df' = [isNone |-> FALSE, ids |-> [i \in DOMAIN movies |-> movies[i].id]]
    /\ IF FittedVocabulary(movies) = {}
       THEN /\ content_similarity_matrix' = content_similarity_matrix
            /\ response' = Call("prepare_content_features", 0, <<>>, 0, Raised("ValueError"))
       ELSE /\ content_similarity_matrix' = CosineSimilarityMatrix(movies)
            /\ response' = Call("prepare_content_features", 0, <<>>, 0, Returned(<<>>))
    /\ UNCHANGED <<collaborative_model, db, merge_vars, app_vars, side_vars>>

\* train_collaborative_model(ratings), lines 36-44: an empty frame has no
\* user_id column, so line 40 raises before fit
TrainCollaborativeModel(ratings) ==
    /\ response = NoCall
    /\ IF ratings = <<>>
       THEN /\ collaborative_model' = collaborative_model
            /\ response' = Call("train_collaborative_model", 0, <<>>, Len(ratings),
                                Raised("KeyError"))
       ELSE /\ collaborative_model' = [fitted |-> TRUE, trainset |-> Range(ratings)]
            /\ response' = Call("train_collaborative_model", 0, <<>>, Len(ratings),
                                Returned(<<>>))
    /\ UNCHANGED <<movies_df, content_similarity_matrix, db, merge_vars, app_vars, side_vars>>

\* Mutant of GetContentBased: the query drops the matrix it has read
GetContentBasedDropsMatrix(movie_id, n) ==
    /\ response = NoCall
    /\ \E o \in GetContentBasedRecommendations(movies_df, content_similarity_matrix, movie_id, n) :
          response' = Call("get_content_based_recommendations", movie_id, <<>>, n, o)
    /\ content_similarity_matrix' = NoMatrix
    /\ UNCHANGED <<movies_df, collaborative_model, db, merge_vars, app_vars, side_vars>>

GetContentBased(movie_id, n) ==
    /\ response = NoCall
    /\ \E o \in GetContentBasedRecommendations(movies_df, content_similarity_matrix, movie_id, n) :
          response' = Call("get_content_based_recommendations", movie_id, <<>>, n, o)
    /\ UNCHANGED <<engine_vars, db, merge_vars, app_vars, side_vars>>

GetHybrid(user_id, viewed, n) ==
    /\ response = NoCall
    /\ \E o \in GetHybridRecommendations(movies_df, content_similarity_matrix,
                                          collaborative_model, user_id, viewed, n) :
          response' = Call("get_hybrid_recommendations", user_id, viewed, n, o)
    /\ UNCHANGED <<engine_vars, db, merge_vars, app_vars, side_vars>>

GetCollaborative(user_id, n) ==
    /\ response = NoCall
    /\ \E o \in GetCollaborativeRecommendations(movies_df, collaborative_model, user_id, n) :
          response' = Call("get_collaborative_recommendations", user_id, <<>>, n, o)
    /\ UNCHANGED <<engine_vars, db, merge_vars, app_vars, side_vars>>

GetRecommendationsRoute(user_id) ==
    /\ response = NoCall
    /\ \E o \in GetRecommendations(movies_df, content_similarity_matrix,
                                    collaborative_model, db, user_id) :
          response' = Call("get_recommendations", user_id, <<>>, DefaultN, o)
    /\ UNCHANGED <<engine_vars, db, merge_vars, app_vars, side_vars>>

\* The call returns to (or raises into) its caller; the shared instance takes
\* the next call
Return ==
    /\ response # NoCall
    /\ response' = NoCall
    /\ UNCHANGED <<engine_vars, db, merge_vars, app_vars, side_vars>>

Next ==
    \/ \E movies \in MovieLists : PrepareContentFeatures(movies)
    \/ \E ratings \in RatingLists : TrainCollaborativeModel(ratings)
    \/ \E movie_id \in MovieIds, n \in 0..MaxN : GetContentBased(movie_id, n)
    \/ \E user_id \in UserIds, viewed \in ViewedLists, n \in 0..MaxN :
          GetHybrid(user_id, viewed, n)
    \/ \E user_id \in UserIds, n \in 0..MaxN : GetCollaborative(user_id, n)
    \/ \E user_id \in UserIds : GetRecommendationsRoute(user_id)
    \/ Return

Spec == Init /\ [][Next]_vars

\* ------------------------------------------------- merge loop: SpecMerge
\* get_hybrid_recommendations with the candidate lists of lines 78-86 given:
\* any list of known movie ids, repeated and shared ids included.
CandidateLists == SeqsUpTo(MovieIds, MaxRecs)

MergeLocals ==
    [hybrid_recs |-> hybrid_recs, seen_movies |-> seen_movies,
     content_idx |-> content_idx, collab_idx |-> collab_idx]

SetMergeLocals(st) ==
    /\ hybrid_recs' = st.hybrid_recs
    /\ seen_movies' = st.seen_movies
    /\ content_idx' = st.content_idx
    /\ collab_idx' = st.collab_idx

\* Lines 88-93, on entry to the loop
InitMerge ==
    /\ EngineConstructed
    /\ db = DbRows
    /\ response = NoCall
    /\ AppIdle
    /\ SideIdle
    /\ n_recommendations \in 0..MaxN
    /\ recently_viewed \in ViewedLists
    /\ content_recs \in CandidateLists
    /\ collab_recs \in CandidateLists
    /\ hybrid_recs = MergeStart(recently_viewed).hybrid_recs
    /\ seen_movies = MergeStart(recently_viewed).seen_movies
    /\ content_idx = MergeStart(recently_viewed).content_idx
    /\ collab_idx = MergeStart(recently_viewed).collab_idx
    /\ pc = "loop"

\* One pass of the while loop, lines 94-107
MergePass ==
    /\ pc = "loop"
    /\ LoopCondition(MergeLocals, content_recs, collab_recs, n_recommendations)
    /\ SetMergeLocals(LoopBody(MergeLocals, content_recs, collab_recs))
    /\ UNCHANGED <<engine_vars, db, response, pc, n_recommendations,
                   recently_viewed, content_recs, collab_recs, app_vars, side_vars>>

\* The loop condition fails: return hybrid_recs, line 109
MergeReturn ==
    /\ pc = "loop"
    /\ ~LoopCondition(MergeLocals, content_recs, collab_recs, n_recommendations)
    /\ pc' = "done"
    /\ UNCHANGED <<engine_vars, db, response, n_recommendations, recently_viewed,
                   content_recs, collab_recs, hybrid_recs, seen_movies,
                   content_idx, collab_idx, app_vars, side_vars>>

NextMerge == MergePass \/ MergeReturn

SpecMerge == InitMerge /\ [][NextMerge]_vars

\* ------------------------------------------------------------------ claims
HybridReturned == pc = "done"

\* C1: the list get_hybrid_recommendations returns holds no id twice and no id
\* of recently_viewed, whatever the two candidate lists are.
C1_NoDuplicatesNoViewed ==
    HybridReturned =>
        /\ IsInjective(hybrid_recs)
        /\ Range(hybrid_recs) \cap Range(recently_viewed) = {}

\* C1 witness: a call has returned a non-empty list although a content candidate
\* was repeated, one was shared with the collaborative list and one was viewed.
C1_Witness ==
    /\ HybridReturned
    /\ hybrid_recs # <<>>
    /\ ~IsInjective(content_recs)
    /\ Range(content_recs) \cap Range(collab_recs) # {}
    /\ Range(collab_recs) \cap Range(recently_viewed) # {}

\* The candidate lists lines 78-86 can hand to the loop: at most n div 2 ids per
\* seed, at most three seeds, at most n div 2 collaborative ids.
CandidatesWithinHalfN ==
    /\ Len(collab_recs) <= HalfN(n_recommendations)
    /\ Len(content_recs) <= SeedCount * HalfN(n_recommendations)

\* C2: with at most n div 2 candidates per seed and at most n div 2 collaborative
\* candidates, the returned list has at most n ids, for odd n too.
C2_AtMostN ==
    (HybridReturned /\ CandidatesWithinHalfN) => Len(hybrid_recs) <= n_recommendations

\* C2 witness: an odd n, the collaborative list full (n div 2 ids) and all taken,
\* and the call returned exactly n ids.
C2_Witness ==
    /\ HybridReturned
    /\ CandidatesWithinHalfN
    /\ n_recommendations % 2 = 1
    /\ Len(collab_recs) = HalfN(n_recommendations)
    /\ collab_idx = Len(collab_recs)
    /\ collab_idx >= 1
    /\ Len(hybrid_recs) = n_recommendations

\* The movies a call may still recommend: rows of the movies table not viewed
Eligible == DOMAIN db.movies \ Range(recently_viewed)

\* C3: the call returns exactly n ids whenever at least n movies are eligible
\* (slots the candidate lists leave open are filled in popularity order).
C3_ExactlyNWhenEligible ==
    (HybridReturned /\ Cardinality(Eligible) >= n_recommendations)
        => Len(hybrid_recs) = n_recommendations

RECURSIVE Interleave(_, _)
Interleave(c, k) ==
    IF c = <<>> THEN k
    ELSE IF k = <<>> THEN c
    ELSE <<Head(c), Head(k)>> \o Interleave(Tail(c), Tail(k))

Take(s, n) == SubSeq(s, 1, Min(n, Len(s)))

CandidatesDisjointFresh ==
    /\ IsInjective(content_recs \o collab_recs)
    /\ Range(content_recs \o collab_recs) \cap Range(recently_viewed) = {}

HybridCalled == response.op = "get_hybrid_recommendations"
RouteCalled == response.op = "get_recommendations"
SimilarCalled == response.op = "get_content_based_recommendations"
SimilarReturned == SimilarCalled /\ response.outcome.kind = "return"

\* The first n movies of a popularity ordering of the movies table
TopPopular(n) == {Slice(t, 0, n) : t \in TrendingMovies(db.movies)}

NoRatingHistory(user_id) == user_id \in DOMAIN db.users /\ db.users[user_id] = <<>>

\* C5: for a user without rating history and recently_viewed = [], the engine
\* call and the route both answer with the first n movies in popularity order.
C5_ColdStartPopular ==
    /\ (HybridCalled /\ NoRatingHistory(response.id) /\ response.viewed = <<>>)
          => /\ response.outcome.kind = "return"
             /\ response.outcome.value \in TopPopular(response.n)
    /\ (RouteCalled /\ NoRatingHistory(response.id))
          => /\ response.outcome.kind = "return"
             /\ response.outcome.value \in TopPopular(RouteLimit)

\* The content index is built and in step with the corpus table
IndexBuilt ==
    /\ ~movies_df.isNone
    /\ content_similarity_matrix # NoMatrix
    /\ Len(content_similarity_matrix) = Len(movies_df.ids)

\* C6: a hybrid call with a seed that is absent from the content index does not
\* fail (the seed is skipped).
C6_AbsentSeedSkipped ==
    (/\ HybridCalled
     /\ IndexBuilt
     /\ \E seed \in Range(LastK(response.viewed, SeedCount)) : seed \notin Range(movies_df.ids))
        => response.outcome.kind = "return"

\* C7: get_hybrid_recommendations raises in no engine state.
C7_HybridNeverRaises == HybridCalled => response.outcome.kind = "return"

\* C8: get_similar(m, n) of an indexed movie m never contains m.
C8_SelfExclusion ==
    (SimilarReturned /\ IndexBuilt) => response.id \notin Range(response.outcome.value)

\* C9: get_similar(m, n) returns at most min(n, corpus_size - 1) ids, all of them
\* ids of the corpus.
C9_BoundedSize ==
    SimilarReturned =>
        /\ Len(response.outcome.value) <= Min(response.n, Len(movies_df.ids) - 1)
        /\ Range(response.outcome.value) \subseteq Range(movies_df.ids)

\* The similarity of the queried movie to the movie with id x
SimilarityTo(x) ==
    content_similarity_matrix[MovieIdx(movies_df.ids, response.id)][MovieIdx(movies_df.ids, x)]

\* C10: get_similar(m, n) returns its ids in non-increasing similarity to m, and
\* ids of equal similarity in ascending id order.
C10_OrderedTiesAscending ==
    (SimilarReturned /\ IndexBuilt) =>
        LET v == response.outcome.value
        IN  \A i, j \in DOMAIN v : i < j =>
                \/ SimilarityTo(v[i]) > SimilarityTo(v[j])
                \/ SimilarityTo(v[i]) = SimilarityTo(v[j]) /\ v[i] < v[j]

\* ------------------------------------- retrain beside reads: SpecConcurrent
\* The instance has no lock: a caller on another thread runs between any two
\* statements of prepare_content_features. The writer is stepped at its two
\* assignments to self; a read is taken whole.

\* The retrains run beside reads are ones that complete: every movie's text
\* has a term.
CompletingMovieLists ==
    {ml \in MovieLists : ml # <<>> /\ \A i \in DOMAIN ml : ml[i].doc # {}}

\* Lines 22-30: self.movies_df is replaced by the new table
BeginPrepare(movies) ==
    /\ ~building.active
    /\ movies_df' = [isNone |-> FALSE, ids |-> [i \in DOMAIN movies |-> movies[i].id]]
    /\ building' = [active |-> TRUE, movies |-> movies, replaced |-> movies_df]
    /\ UNCHANGED <<content_similarity_matrix, collaborative_model, db, response,
                   merge_vars, main_recommender, seeds_left, similar_lists, side_vars>>

\* Lines 33-34: fit_transform raises, or the new matrix is assigned
FinishPrepare ==
    /\ building.active
    /\ content_similarity_matrix' =
          IF FittedVocabulary(building.movies) = {}
          THEN content_similarity_matrix
          ELSE CosineSimilarityMatrix(building.movies)
    /\ building' = NotBuilding
    /\ UNCHANGED <<movies_df, collaborative_model, db, response,
                   merge_vars, main_recommender, seeds_left, similar_lists, side_vars>>

NextConcurrent ==
    \/ \E movies \in CompletingMovieLists : BeginPrepare(movies)
    \/ FinishPrepare
    \/ \E movie_id \in MovieIds, n \in 0..MaxN : GetContentBased(movie_id, n)
    \/ Return

SpecConcurrent == Init /\ [][NextConcurrent]_vars

\* ------------------------------------------- the two instances: SpecApp
\* engine.py:113 creates the instance that POST /train and
\* GET /recommendations/{user_id} use (movies_df, content_similarity_matrix,
\* collaborative_model above); main.py:41 creates another one, used by
\* POST /admin/load-more-movies and GET /movies/recommended/ (main_recommender).

\* A row of the movies table: id i is its position (autoincrement key)
MovieRow(i, doc) == [average_rating |-> i % 2, view_count |-> i \div 2, doc |-> doc]

\* The database over a movies table with the given texts: user 1 has no rating
\* and no viewing row, user 2 has rated movies 1 and 2 and viewed 2 then 1
\* (history is in watched_at descending order), as far as the movies exist.
AppDb(docs) ==
    [users |-> (1 :> <<>>) @@ (2 :> SelectSeq(<<1, 2>>, LAMBDA m : m <= Len(docs))),
     history |-> (1 :> <<>>) @@ (2 :> SelectSeq(<<2, 1>>, LAMBDA m : m <= Len(docs))),
     movies |-> [i \in 1..Len(docs) |-> MovieRow(i, docs[i])]]

InitApp ==
    /\ EngineConstructed
    /\ db \in {AppDb(docs) : docs \in SeqsUpTo(Docs, NumMovieIds)}
    /\ response = NoCall
    /\ MergeIdle
    /\ AppIdle
    /\ SideIdle

\* load_more_movies, main.py:773-823: load_initial_movies adds the rows in
\* added, then every row of the table, in the order the unordered query
\* yields them, goes to prepare_content_features of the main.py instance;
\* any exception becomes HTTP 500. crew_listed: some row has a non-empty crew,
\* an ARRAY column (models.py:130), so m.crew.split of line 801 raises before
\* the instance is touched.
LoadMoreMovies(added, order, crew_listed) ==
    /\ response = NoCall
    /\ Len(db.movies) + Len(added) <= NumMovieIds
    /\ LET table == db.movies \o [i \in 1..Len(added) |->
                                    MovieRow(Len(db.movies) + i, added[i])]
       IN  /\ order \in Permutations(1..Len(table))
           /\ LET movies_data == [k \in 1..Len(table) |->
                                    [id |-> order[k], doc |-> table[order[k]].doc]]
              IN  /\ db' = [db EXCEPT !.movies = table]
                  /\ IF crew_listed /\ table # <<>>
                     THEN /\ main_recommender' = main_recommender
                          /\ response' = Call("load_more_movies", 0, <<>>, 0,
                                              Raised("HTTPException500"))
                     ELSE /\ main_recommender' =
                               [main_recommender EXCEPT
                                  !.movies_df = [isNone |-> FALSE,
                                                 ids |-> [k \in 1..Len(table) |-> order[k]]],
                                  !.content_similarity_matrix =
                                      IF FittedVocabulary(movies_data) = {}
                                      THEN @ ELSE CosineSimilarityMatrix(movies_data)]
                          /\ response' = Call("load_more_movies", 0, <<>>, 0,
                                              IF FittedVocabulary(movies_data) = {}
                                              THEN Raised("HTTPException500")
                                              ELSE Returned(<<>>))
    /\ UNCHANGED <<engine_vars, merge_vars, building, seeds_left, similar_lists, side_vars>>

\* train_recommender, engine.py:115-143: m.director is read for each row of
\* the table and models.Movie has no such column; with no row,
\* prepare_content_features([]) stores the empty table and raises.
TrainRoute ==
    /\ response = NoCall
    /\ IF db.movies # <<>>
       THEN /\ movies_df' = movies_df
            /\ response' = Call("train_recommender", 0, <<>>, 0, Raised("AttributeError"))
       ELSE /\ movies_df' = [isNone |-> FALSE, ids |-> <<>>]
            /\ response' = Call("train_recommender", 0, <<>>, 0, Raised("ValueError"))
    /\ UNCHANGED <<content_similarity_matrix, collaborative_model, db, merge_vars, app_vars, side_vars>>

\* get_recommended_movies, main.py:885-905: the last 10 viewing rows of the
\* authenticated user go to get_hybrid_recommendations of the main.py instance
GetRecommendedMovies(user_id) ==
    /\ response = NoCall
    /\ user_id \in DOMAIN db.users
    /\ LET viewed == Slice(db.history[user_id], 0, RouteLimit)
       IN  \E o \in GetHybridRecommendations(main_recommender.movies_df,
                        main_recommender.content_similarity_matrix,
                        main_recommender.collaborative_model, user_id, viewed, DefaultN) :
              response' = Call("get_recommended_movies", user_id, viewed, DefaultN, o)
    /\ UNCHANGED <<engine_vars, db, merge_vars, app_vars, side_vars>>

NextApp ==
    \/ \E added \in SeqsUpTo(Docs, NumMovieIds),
          order \in UNION {Permutations(1..k) : k \in 0..NumMovieIds},
          crew_listed \in BOOLEAN :
          LoadMoreMovies(added, order, crew_listed)
    \/ TrainRoute
    \/ \E user_id \in UserIds : GetRecommendationsRoute(user_id)
    \/ \E user_id \in UserIds : GetRecommendedMovies(user_id)
    \/ Return

SpecApp == InitApp /\ [][NextApp]_vars

\* ------------------------------------------------ seed loop: SpecSeeds
\* Lines 78-81 of get_hybrid_recommendations on a built index, one seed of the
\* for loop at a time. recently_viewed is any list of known movie ids, as a
\* direct caller may pass it.
SeedViewedLists == SeqsUpTo(MovieIds, MaxSeedViewed)

\* The built indexes the loop is run on: completed retrains whose rows came in
\* id order
SeedCorpora ==
    {ml \in CompletingMovieLists : \A i, j \in DOMAIN ml : i < j => ml[i].id < ml[j].id}

InitSeeds ==
    /\ \E movies \in SeedCorpora :
          /\ movies_df = [isNone |-> FALSE, ids |-> [i \in DOMAIN movies |-> movies[i].id]]
          /\ content_similarity_matrix = CosineSimilarityMatrix(movies)
    /\ collaborative_model = Unfitted
    /\ db = DbRows
    /\ response = NoCall
    /\ building = NotBuilding
    /\ main_recommender = Constructed
    /\ SideIdle
    /\ n_recommendations \in 0..MaxN
    /\ recently_viewed \in SeedViewedLists
    /\ content_recs = <<>>
    /\ seeds_left = LastK(recently_viewed, SeedCount)
    /\ similar_lists = <<>>
    /\ collab_recs = <<>>
    /\ hybrid_recs = <<>>
    /\ seen_movies = {}
    /\ content_idx = 0
    /\ collab_idx = 0
    /\ pc = "seeds"

\* Lines 80-81 for one seed: the call returns and its list is appended, or it
\* raises and the exception leaves get_hybrid_recommendations
SeedPass ==
    /\ pc = "seeds"
    /\ seeds_left # <<>>
    /\ \E o \in GetContentBasedRecommendations(movies_df, content_similarity_matrix,
                     Head(seeds_left), HalfN(n_recommendations)) :
          IF o.kind = "raise"
          THEN /\ pc' = "raised"
               /\ UNCHANGED <<content_recs, seeds_left, similar_lists>>
          ELSE /\ content_recs' = content_recs \o o.value
               /\ similar_lists' = Append(similar_lists,
                                          [seed |-> Head(seeds_left), similar |-> o.value])
               /\ seeds_left' = Tail(seeds_left)
               /\ pc' = pc
    /\ UNCHANGED <<engine_vars, db, response, n_recommendations, recently_viewed,
                   collab_recs, hybrid_recs, seen_movies, content_idx, collab_idx,
                   building, main_recommender, side_vars>>

\* The for loop is exhausted: line 84 is next
SeedsDone ==
    /\ pc = "seeds"
    /\ seeds_left = <<>>
    /\ pc' = "collab"
    /\ UNCHANGED <<engine_vars, db, response, n_recommendations, recently_viewed,
                   content_recs, collab_recs, hybrid_recs, seen_movies, content_idx,
                   collab_idx, app_vars, side_vars>>

NextSeeds == SeedPass \/ SeedsDone

SpecSeeds == InitSeeds /\ [][NextSeeds]_vars

\* ------------------------------------------------- rate_movie: SpecRate
\* POST /movies/{movie_id}/rate in its two copies: api_routes.py:718-766
\* (models.Rating) and main.py:1043-1084 (models.UserMovieRating, a name
\* models.py does not define). db is [ratings, movies]: the committed Rating
\* rows, one per (user, movie), and each movie's average_rating, kept as the
\* fraction num/den that the division of line 756 computes, and rating_count.
RateUsers == {1, 2}
RateMovies == {1, 2}
\* movie 3 has no row
RateMovieIds == {1, 2, 3}
RateValues == {0, 1, 5, 6}

RECURSIVE SumRatings(_)
SumRatings(rows) ==
    IF rows = {} THEN 0
    ELSE LET r == CHOOSE x \in rows : TRUE IN r.rating + SumRatings(rows \ {r})

RowsOf(ratings, movie_id) == {r \in ratings : r.movie_id = movie_id}

\* The columns of a movie whose aggregates agree with its Rating rows
\* (defaults 0.0 and 0 of models.py:140-141 when it has none)
MovieAggregates(rows) ==
    [average_rating |-> IF rows = {} THEN [num |-> 0, den |-> 1]
                        ELSE [num |-> SumRatings(rows), den |-> Cardinality(rows)],
     rating_count |-> Cardinality(rows)]

RateDbs ==
    {[ratings |-> rs, movies |-> [m \in RateMovies |-> MovieAggregates(RowsOf(rs, m))]] :
        rs \in {x \in SUBSET [user_id : RateUsers, movie_id : RateMovies, rating : {1, 5}] :
                  \A a, b \in x : (a.user_id = b.user_id /\ a.movie_id = b.movie_id) => a = b}}

RateCall(op, user_id, movie_id, rating, outcome) ==
    [op |-> op, user_id |-> user_id, movie_id |-> movie_id, rating |-> rating,
     outcome |-> outcome]

\* Mutant of RatingOutOfRange: the upper test of line 727 dropped
RatingBelowOne(rating) == rating < 1

\* if rating < 1 or rating > 5, api_routes.py:727 and main.py:1051
RatingOutOfRange(rating) == rating < 1 \/ rating > 5

\* Lines 736-757 of api_routes.py on the session: the rows the aggregate query
\* of line 753 yields. autoflush is off (database.py:82), so a row added at
\* line 750 is not among them; a changed row is, with its new value.
AllRatings(database, user_id, movie_id, rating) ==
    {IF r.user_id = user_id THEN [r EXCEPT !.rating = rating] ELSE r :
        r \in RowsOf(database.ratings, movie_id)}

\* The database after db.commit() of line 759
Committed(database, user_id, movie_id, rating) ==
    LET all_ratings == AllRatings(database, user_id, movie_id, rating)
    IN  [ratings |-> {r \in database.ratings :
                        ~(r.user_id = user_id /\ r.movie_id = movie_id)}
                     \cup {[user_id |-> user_id, movie_id |-> movie_id, rating |-> rating]},
         movies |-> [database.movies EXCEPT ![movie_id] =
                        [average_rating |-> [num |-> SumRatings(all_ratings),
                                             den |-> Cardinality(all_ratings)],
                         rating_count |-> Cardinality(all_ratings)]]]

\* rate_movie of api_routes.py, the whole handler
RateMovie(user_id, movie_id, rating) ==
    /\ response = NoCall
    /\ IF RatingOutOfRange(rating)
       THEN /\ db' = db
            /\ response' = RateCall("rate_movie", user_id, movie_id, rating,
                                    Raised("HTTPException400"))
       ELSE IF movie_id \notin DOMAIN db.movies
       THEN /\ db' = db
            /\ response' = RateCall("rate_movie", user_id, movie_id, rating,
                                    Raised("HTTPException404"))
       ELSE IF AllRatings(db, user_id, movie_id, rating) = {} \/ rating \notin 1..5
       THEN \* ZeroDivisionError at line 756, or the CHECK constraint of
            \* models.py:19 at commit: rollback, HTTP 500
            /\ db' = db
            /\ response' = RateCall("rate_movie", user_id, movie_id, rating,
                                    Raised("HTTPException500"))
       ELSE /\ db' = Committed(db, user_id, movie_id, rating)
            /\ response' = RateCall("rate_movie", user_id, movie_id, rating,
                                    Returned(<<>>))
    /\ UNCHANGED <<engine_vars, merge_vars, app_vars, side_vars>>

\* rate_movie of main.py: past the two checks, models.UserMovieRating at
\* line 1060 raises AttributeError
RateMovieMain(user_id, movie_id, rating) ==
    /\ response = NoCall
    /\ response' = RateCall("rate_movie_main", user_id, movie_id, rating,
                            IF RatingOutOfRange(rating) THEN Raised("HTTPException400")
                            ELSE IF movie_id \notin DOMAIN db.movies
                            THEN Raised("HTTPException404")
                            ELSE Raised("AttributeError"))
    /\ UNCHANGED <<engine_vars, db, merge_vars, app_vars, side_vars>>

InitRate ==
    /\ EngineConstructed
    /\ db \in RateDbs
    /\ response = NoCall
    /\ MergeIdle
    /\ AppIdle
    /\ SideIdle

NextRate ==
    \/ \E user_id \in RateUsers, movie_id \in RateMovieIds, rating \in RateValues :
          RateMovie(user_id, movie_id, rating)
    \/ \E user_id \in RateUsers, movie_id \in RateMovieIds, rating \in RateValues :
          RateMovieMain(user_id, movie_id, rating)
    \/ Return

SpecRate == InitRate /\ [][NextRate]_vars

\* ------------------------------ update_movie_popularity_optimized: SpecPopularity
\* NumCalls calls of movie_operations.py:208-240, each on a session of its own,
\* interleaved at statement level. db is [movies, row_lock]: the committed
\* Movie rows and, per row, the call whose transaction holds the row lock of
\* its UPDATE (0 for none). tasks[i] is the frame of call i.
NumCalls == 3
PopCalls == 1..NumCalls
\* movie 1 has a row, movie 2 has none
PopMovies == {1}
PopMovieIds == {1, 2}

RECURSIVE Gcd(_, _)
Gcd(a, b) == IF b = 0 THEN a ELSE Gcd(b, a % b)

\* A float as a fraction in lowest terms
Frac(num, den) == [num |-> num \div Gcd(num, den), den |-> den \div Gcd(num, den)]

\* Lines 224-227: completed_views / total_views
CompletionRate(rate, total_views) ==
    IF total_views > 0
    THEN Frac(rate.num * (total_views - 1) + rate.den, rate.den * total_views)
    ELSE rate

PopRows ==
    {[view_count |-> 0, completion_rate |-> Frac(0, 1)],
     [view_count |-> 1, completion_rate |-> Frac(0, 1)],
     [view_count |-> 1, completion_rate |-> Frac(1, 1)]}

PopFrames ==
    [pc : {"start"}, movie_id : PopMovieIds, completed : BOOLEAN,
     view_count : {0}, result : {"pending"}]

\* Mutant of PopUpdate: the new count is computed from a value read before,
\* without the row lock of the UPDATE statement
PopUpdateReadThenWrite(i) ==
    /\ tasks[i].pc = "start"
    /\ IF tasks[i].movie_id \notin DOMAIN db.movies
       THEN tasks' = [tasks EXCEPT ![i].pc = "done", ![i].result = "None"]
       ELSE tasks' = [tasks EXCEPT ![i].pc = "updated",
                         ![i].view_count = db.movies[tasks[i].movie_id].view_count + 1]
    /\ UNCHANGED <<engine_vars, db, response, merge_vars, app_vars, movie_cache, fetch_call>>

\* Lines 212-218: UPDATE movies SET view_count = view_count + 1 WHERE id = :id.
\* No row matched: return None. Otherwise the statement waits for the row lock,
\* computes from the committed row and holds the lock until the commit.
PopUpdate(i) ==
    /\ tasks[i].pc = "start"
    /\ IF tasks[i].movie_id \notin DOMAIN db.movies
       THEN /\ tasks' = [tasks EXCEPT ![i].pc = "done", ![i].result = "None"]
            /\ db' = db
       ELSE /\ db.row_lock[tasks[i].movie_id] = 0
            /\ db' = [db EXCEPT !.row_lock[tasks[i].movie_id] = i]
            /\ tasks' = [tasks EXCEPT ![i].pc = "updated",
                            ![i].view_count = db.movies[tasks[i].movie_id].view_count + 1]
    /\ UNCHANGED <<engine_vars, response, merge_vars, app_vars, movie_cache, fetch_call>>

\* Lines 220-235: the completion rate when asked for, db.commit(), the row read
\* back and returned
PopCommit(i) ==
    /\ tasks[i].pc = "updated"
    /\ LET m == tasks[i].movie_id
           row == db.movies[m]
       IN  db' = [movies |-> [db.movies EXCEPT ![m] =
                     [view_count |-> tasks[i].view_count,
                      completion_rate |->
                          IF tasks[i].completed
                          THEN CompletionRate(row.completion_rate, tasks[i].view_count)
                          ELSE row.completion_rate]],
                  row_lock |-> [db.row_lock EXCEPT ![m] =
                                   IF db.row_lock[m] = i THEN 0 ELSE db.row_lock[m]]]
    /\ tasks' = [tasks EXCEPT ![i].pc = "done", ![i].result = "row"]
    /\ UNCHANGED <<engine_vars, response, merge_vars, app_vars, movie_cache, fetch_call>>

InitPopularity ==
    /\ EngineConstructed
    /\ db \in [movies : [PopMovies -> PopRows], row_lock : [PopMovies -> {0}]]
    /\ response = NoCall
    /\ MergeIdle
    /\ AppIdle
    /\ tasks \in [PopCalls -> PopFrames]
    /\ movie_cache = <<>>
    /\ fetch_call = NoFetch

NextPopularity ==
    \/ \E i \in PopCalls : PopUpdate(i)
    \/ \E i \in PopCalls : PopCommit(i)

SpecPopularity == InitPopularity /\ [][NextPopularity]_vars

\* ------------------------------------------- GET /movies/ cache: SpecCache
\* get_movies of main.py:611-771 with movie_cache (main.py:79-110). An optional
\* parameter is "None" when absent and otherwise its value as the request
\* spells it (numbers as numerals). movie_cache maps a cache key
\* to [data, expired]: the cached response_data, known by the query it is the
\* result of, and whether the entry is older than the ttl.
None == "None"
\* Python truth of an optional int, float or str parameter
Truthy(v) == v \notin {None, "0", ""}

MovieParams ==
    [page : {1}, per_page : {12},
     genres : {None, "g"},
     min_year : {None, "0"},
     min_rating : {None, "0", "1"},
     sort : {"title_asc", "random"},
     random_seed : {None, "1"},
     release_date_lte : {None, "d"}]

\* x or '' of lines 643-647
OrEmpty(v) == IF Truthy(v) THEN v ELSE ""

\* get_cache_key over the dict of lines 640-648; max_year and max_rating are
\* absent in every request of the model
GetCacheKey(p) ==
    <<p.page, p.per_page, OrEmpty(p.min_year), "", OrEmpty(p.min_rating), "",
      OrEmpty(p.sort)>>

CacheKeys == {GetCacheKey(p) : p \in MovieParams}

\* Whether the request is cached at all, lines 639 and 768
BasicQuery(p) == ~Truthy(p.genres)

\* The query lines 660-729 build: the filters and the ordering. release_date_lte
\* is read nowhere in the handler.
BuiltQuery(p) ==
    [genres |-> IF Truthy(p.genres) THEN p.genres ELSE None,
     min_year |-> IF Truthy(p.min_year) THEN p.min_year ELSE None,
     min_rating |-> p.min_rating,
     sort |-> p.sort,
     random_seed |-> IF p.sort = "random" /\ Truthy(p.random_seed)
                     THEN p.random_seed ELSE None,
     page |-> p.page, per_page |-> p.per_page]

\* SimpleCache.get: a live entry
CacheGet(cache, key) == key \in DOMAIN cache /\ ~cache[key].expired

\* SimpleCache.get dropping a stale entry, then SimpleCache.cleanup of line 657
CacheCleanup(cache) == [k \in {x \in DOMAIN cache : ~cache[x].expired} |-> cache[k]]

\* SimpleCache.set
CacheSet(cache, key, data) ==
    [k \in DOMAIN cache \cup {key} |->
        IF k = key THEN [data |-> data, expired |-> FALSE] ELSE cache[k]]

MoviesCall(p, cached, outcome) ==
    [op |-> "get_movies", params |-> p, cached |-> cached, outcome |-> outcome]

\* get_movies, the whole handler; ok is whether the query and the building of
\* movie_list (lines 731-756) complete without raising
GetMovies(p, ok) ==
    /\ response = NoCall
    /\ IF BasicQuery(p) /\ CacheGet(movie_cache, GetCacheKey(p))
       THEN /\ response' = MoviesCall(p, TRUE, Returned(movie_cache[GetCacheKey(p)].data))
            /\ movie_cache' = movie_cache
       ELSE LET cleaned == IF BasicQuery(p) THEN CacheCleanup(movie_cache)
                           ELSE movie_cache
            IN  IF ~ok
                THEN /\ response' = MoviesCall(p, FALSE, Raised("Exception"))
                     /\ movie_cache' = cleaned
                ELSE /\ response' = MoviesCall(p, FALSE, Returned(BuiltQuery(p)))
                     /\ movie_cache' = IF BasicQuery(p)
                                       THEN CacheSet(cleaned, GetCacheKey(p), BuiltQuery(p))
                                       ELSE cleaned
    /\ UNCHANGED <<engine_vars, db, merge_vars, app_vars, tasks, fetch_call>>

\* ttl seconds pass since the entry was set
CacheEntryAges(key) ==
    /\ key \in DOMAIN movie_cache
    /\ ~movie_cache[key].expired
    /\ movie_cache' = [movie_cache EXCEPT ![key].expired = TRUE]
    /\ UNCHANGED <<engine_vars, db, response, merge_vars, app_vars, tasks, fetch_call>>

InitCache ==
    /\ EngineConstructed
    /\ db = DbRows
    /\ response = NoCall
    /\ MergeIdle
    /\ AppIdle
    /\ SideIdle

NextCache ==
    \/ \E p \in MovieParams, ok \in BOOLEAN : GetMovies(p, ok)
    \/ \E key \in CacheKeys : CacheEntryAges(key)
    \/ Return

SpecCache == InitCache /\ [][NextCache]_vars

\* ------------------------------------ viewing history and seeds: SpecHistory
\* POST /movies/{movie_id}/view (main.py:950-984) fills the viewing history that
\* GET /movies/recommended/ (main.py:885-905) reads. One user; db.history[u] is
\* the user's viewing rows in watched_at descending order; a (user, movie) pair
\* has at most one row (unique index, models.py:45).
NumHistoryMovies == 4
HistoryMovies == 1..NumHistoryMovies
\* one more id, without a row
HistoryMovieIds == 1..(NumHistoryMovies + 1)
HistoryUsers == {1}

ViewCall(user_id, movie_id, completed, outcome) ==
    [op |-> "record_movie_view", user_id |-> user_id, id |-> movie_id, completed |-> completed,
     outcome |-> outcome]

\* record_movie_view, the whole handler
RecordMovieView(user_id, movie_id, completed) ==
    /\ response = NoCall
    /\ IF movie_id \notin DOMAIN db.movies
       THEN /\ db' = db
            /\ response' = ViewCall(user_id, movie_id, completed, Raised("HTTPException404"))
       ELSE IF \E i \in DOMAIN db.history[user_id] : db.history[user_id][i] = movie_id
       THEN \* the unique index rejects the second row at db.commit()
            /\ db' = db
            /\ response' = ViewCall(user_id, movie_id, completed, Raised("IntegrityError"))
       ELSE /\ db' = [db EXCEPT
                        !.history[user_id] = <<movie_id>> \o @,
                        !.movies[movie_id] =
                            [view_count |-> @.view_count + 1,
                             completion_rate |->
                                 IF completed
                                 THEN CompletionRate(@.completion_rate, @.view_count + 1)
                                 ELSE @.completion_rate]]
            /\ response' = ViewCall(user_id, movie_id, completed, Returned(<<>>))
    /\ UNCHANGED <<engine_vars, merge_vars, app_vars, side_vars>>

\* get_recommended_movies of main.py with the slice of engine.py:80 kept in the
\* frame: viewed is recently_viewed_ids, seeds is recently_viewed[-3:]
GetRecommendedMoviesSeeds(user_id) ==
    /\ response = NoCall
    /\ LET viewed == Slice(db.history[user_id], 0, RouteLimit)
       IN  \E o \in GetHybridRecommendations(main_recommender.movies_df,
                        main_recommender.content_similarity_matrix,
                        main_recommender.collaborative_model, user_id, viewed, DefaultN) :
              response' = [op |-> "get_recommended_movies", id |-> user_id,
                           viewed |-> viewed, seeds |-> LastK(viewed, SeedCount),
                           n |-> DefaultN, outcome |-> o]
    /\ UNCHANGED <<engine_vars, db, merge_vars, app_vars, side_vars>>

InitHistory ==
    /\ EngineConstructed
    /\ db = [users |-> [u \in HistoryUsers |-> <<>>],
             history |-> [u \in HistoryUsers |-> <<>>],
             movies |-> [m \in HistoryMovies |->
                            [view_count |-> 0, completion_rate |-> Frac(0, 1)]]]
    /\ response = NoCall
    /\ MergeIdle
    /\ AppIdle
    /\ SideIdle

NextHistory ==
    \/ \E user_id \in HistoryUsers, movie_id \in HistoryMovieIds, completed \in BOOLEAN :
          RecordMovieView(user_id, movie_id, completed)
    \/ \E user_id \in HistoryUsers : GetRecommendedMoviesSeeds(user_id)
    \/ Return

SpecHistory == InitHistory /\ [][NextHistory]_vars

\* ------------------------------------------------ fetch_imdb_data: SpecFetch
\* external_apis.py:19-124 (main.py:113-218 is the same text), one request at
\* a time. fetch_call is the frame of the call with its recursive retries:
\* pc is the request to make next, sleeps the delays slept so far, requests
\* the requests made so far, each with the attempt's retry_count and the
\* answer it got. No request raises.
MaxRetries == 3
BaseDelay == 1

\* Mutant of BackoffDelay: a delay growing by base_delay per retry
LinearDelay(current_retry) == BaseDelay * current_retry

\* Line 38: base_delay * (2 ** (current_retry - 1))
BackoffDelay(current_retry) == BaseDelay * 2^(current_retry - 1)

\* fetch_with_backoff, lines 36-40: the frame after the request of step pc got
\* the given answer
FetchWithBackoff(fc, answer) ==
    [fc EXCEPT
        !.sleeps = IF fc.retry_count > 0
                   THEN Append(@, BackoffDelay(fc.retry_count)) ELSE @,
        !.requests = Append(@, [step |-> fc.pc, retry_count |-> fc.retry_count,
                                answer |-> answer])]

\* process_imdb_data, lines 126-145: None when imdbRating or imdbVotes of the
\* answer do not parse
ProcessImdbData(wellformed) == IF wellformed THEN "data" ELSE "None"

FetchReturn(fc, result) == [fc EXCEPT !.pc = "done", !.result = result]

\* Lines 120-124: the next attempt, or None
RetryOrNone(fc) ==
    IF fc.retry_count < MaxRetries
    THEN [fc EXCEPT !.pc = "tmdb_search", !.retry_count = @ + 1, !.imdb_id = FALSE]
    ELSE FetchReturn(fc, "None")

FetchStart == [NoFetch EXCEPT !.pc = "tmdb_search"]

fetch_others == <<engine_vars, db, response, merge_vars, app_vars, tasks, movie_cache>>

\* Lines 49-51: the TMDb search
TmdbSearch(has_results) ==
    /\ fetch_call.pc = "tmdb_search"
    /\ fetch_call' = [FetchWithBackoff(fetch_call, IF has_results THEN "results" ELSE "empty")
                        EXCEPT !.pc = IF has_results THEN "tmdb_details" ELSE "omdb_title"]
    /\ UNCHANGED fetch_others

\* Lines 67-75: the TMDb details, which may carry an imdb_id
TmdbDetails(has_imdb_id) ==
    /\ fetch_call.pc = "tmdb_details"
    /\ fetch_call' = [FetchWithBackoff(fetch_call, IF has_imdb_id THEN "imdb_id" ELSE "no_id")
                        EXCEPT !.imdb_id = has_imdb_id,
                               !.pc = IF has_imdb_id THEN "omdb_id" ELSE "omdb_title"]
    /\ UNCHANGED fetch_others

\* Lines 78-86: OMDb by imdb_id
OmdbById(found, wellformed) ==
    /\ fetch_call.pc = "omdb_id"
    /\ LET fc == FetchWithBackoff(fetch_call, IF found THEN "True" ELSE "False")
       IN  fetch_call' = IF found THEN FetchReturn(fc, ProcessImdbData(wellformed))
                         ELSE [fc EXCEPT !.pc = "omdb_title"]
    /\ UNCHANGED fetch_others

\* Lines 89-97: OMDb by title and year
OmdbByTitle(found, wellformed) ==
    /\ fetch_call.pc = "omdb_title"
    /\ LET fc == FetchWithBackoff(fetch_call, IF found THEN "True" ELSE "False")
       IN  fetch_call' = IF found THEN FetchReturn(fc, ProcessImdbData(wellformed))
                         ELSE [fc EXCEPT !.pc = "omdb_search"]
    /\ UNCHANGED fetch_others

\* Lines 100-108: the looser OMDb search; hits: Response is "True" and Search
\* is not empty
OmdbSearch(hits) ==
    /\ fetch_call.pc = "omdb_search"
    /\ LET fc == FetchWithBackoff(fetch_call, IF hits THEN "hits" ELSE "no_hits")
       IN  fetch_call' = IF hits THEN [fc EXCEPT !.pc = "omdb_detail"]
                         ELSE RetryOrNone(fc)
    /\ UNCHANGED fetch_others

\* Lines 109-117: the details of the first hit
OmdbDetail(found, wellformed) ==
    /\ fetch_call.pc = "omdb_detail"
    /\ LET fc == FetchWithBackoff(fetch_call, IF found THEN "True" ELSE "False")
       IN  fetch_call' = IF found THEN FetchReturn(fc, ProcessImdbData(wellformed))
                         ELSE RetryOrNone(fc)
    /\ UNCHANGED fetch_others

InitFetch ==
    /\ EngineConstructed
    /\ db = DbRows
    /\ response = NoCall
    /\ MergeIdle
    /\ AppIdle
    /\ tasks = <<>>
    /\ movie_cache = <<>>
    /\ fetch_call = FetchStart

NextFetch ==
    \/ \E has_results \in BOOLEAN : TmdbSearch(has_results)
    \/ \E has_imdb_id \in BOOLEAN : TmdbDetails(has_imdb_id)
    \/ \E found, wellformed \in BOOLEAN : OmdbById(found, wellformed)
    \/ \E found, wellformed \in BOOLEAN : OmdbByTitle(found, wellformed)
    \/ \E hits \in BOOLEAN : OmdbSearch(hits)
    \/ \E found, wellformed \in BOOLEAN : OmdbDetail(found, wellformed)

SpecFetch == InitFetch /\ [][NextFetch]_vars

\* Every request gets an answer: the event loop resumes the coroutine
SpecFetchFair == SpecFetch /\ WF_vars(NextFetch)

\* ------------------------------------- load_initial_movies_optimized: SpecBatch
\* One batch of movie_processing.py:229-259: NumBatchTasks process_single_movie
\* coroutines on the one session, interleaved at their await (line 124), then
\* db.commit(). db is [movies, committed]: the Movie rows the session sees, in
\* insertion order, of which the first `committed` are committed. A row is
\* [title_year, imdb_id]; tasks[i] is the frame of coroutine i.
NumBatchTasks == 3
BatchTasks == 1..NumBatchTasks
\* asyncio.Semaphore(3), line 233
SemaphoreLimit == 3
TitleYears == {"a", "b"}
ImdbIds == {"tt1", "tt2"}

\* The entries of a TMDb page: title with release year, and the imdb_id the
\* lookups find for it
MovieData == [title_year : TitleYears, imdb_id : ImdbIds]

BatchFrames == [pc : {"waiting"}, movie_data : MovieData, result : {"pending"}]

\* Lines 88-93: the existence check by title and release_year
ExistingMovie(database, movie_data) ==
    \E i \in DOMAIN database.movies :
        database.movies[i].title_year = movie_data.title_year

batch_others == <<engine_vars, response, merge_vars, app_vars, movie_cache, fetch_call>>

\* Lines 74-124: past the semaphore, the checks of the entry and the existence
\* check, up to the await of the external fetches. details: TMDb has details.
CheckExisting(i, details) ==
    /\ tasks[i].pc = "waiting"
    /\ Cardinality({j \in BatchTasks : tasks[j].pc = "fetching"}) < SemaphoreLimit
    /\ tasks' = IF ExistingMovie(db, tasks[i].movie_data) \/ ~details
                THEN [tasks EXCEPT ![i].pc = "done", ![i].result = "False"]
                ELSE [tasks EXCEPT ![i].pc = "fetching"]
    /\ db' = db
    /\ UNCHANGED batch_others

\* Lines 125-188: the fetches have answered (imdb_found: with IMDb data), the
\* row is built, added and flushed; a second row with the same imdb_id breaks
\* the unique index (models.py:100) and the whole session is rolled back.
AddMovie(i, imdb_found) ==
    /\ tasks[i].pc = "fetching"
    /\ LET row == [title_year |-> tasks[i].movie_data.title_year,
                   imdb_id |-> IF imdb_found THEN tasks[i].movie_data.imdb_id ELSE "None"]
       IN  IF row.imdb_id # "None"
              /\ \E j \in DOMAIN db.movies : db.movies[j].imdb_id = row.imdb_id
           THEN /\ db' = [db EXCEPT !.movies = SubSeq(@, 1, db.committed)]
                /\ tasks' = [tasks EXCEPT ![i].pc = "done", ![i].result = "False"]
           ELSE /\ db' = [db EXCEPT !.movies = Append(@, row)]
                /\ tasks' = [tasks EXCEPT ![i].pc = "done", ![i].result = "True"]
    /\ UNCHANGED batch_others

\* Lines 241-259: gather has every result; db.commit()
CommitBatch ==
    /\ \A i \in BatchTasks : tasks[i].pc = "done"
    /\ db.committed # Len(db.movies)
    /\ db' = [db EXCEPT !.committed = Len(db.movies)]
    /\ UNCHANGED <<tasks, batch_others>>

InitBatch ==
    /\ EngineConstructed
    /\ db \in {[movies |-> rows, committed |-> Len(rows)] :
                 rows \in {<<>>, <<[title_year |-> "a", imdb_id |-> "tt1"]>>}}
    /\ response = NoCall
    /\ MergeIdle
    /\ AppIdle
    /\ tasks \in [BatchTasks -> BatchFrames]
    /\ movie_cache = <<>>
    /\ fetch_call = NoFetch

NextBatch ==
    \/ \E i \in BatchTasks, details \in BOOLEAN : CheckExisting(i, details)
    \/ \E i \in BatchTasks, imdb_found \in BOOLEAN : AddMovie(i, imdb_found)
    \/ CommitBatch

SpecBatch == InitBatch /\ [][NextBatch]_vars

\* C11: a direct get_content_based_recommendations call whose movie_id is not
\* in the corpus of a built index fails with the typed NotFound error, and
\* the engine state is what it was before the call.
C11_AbsentIdNotFound ==
    [][(/\ response'.op = "get_content_based_recommendations"
        /\ response.op = "none"
        /\ IndexBuilt
        /\ response'.id \notin Range(movies_df.ids))
       => (response'.outcome = Raised("NotFound") /\ engine_vars' = engine_vars)]_vars

CollabCalled == response.op = "get_collaborative_recommendations"

\* The movies the ratings used in training hold a rating for by user_id
RatedInTraining(user_id) ==
    {r.movie_id : r \in {x \in collaborative_model.trainset : x.user_id = user_id}}

\* C12: after a completed train_collaborative_model, on a built index,
\* get_collaborative_recommendations returns a list, and no movie of it is one
\* the user rated in the training ratings.
C12_OnlyUnratedReturned ==
    (CollabCalled /\ collaborative_model.fitted /\ IndexBuilt) =>
        /\ response.outcome.kind = "return"
        /\ \A k \in DOMAIN response.outcome.value :
              response.outcome.value[k][1] \notin RatedInTraining(response.id)

\* C13: get_collaborative_recommendations returns at most n_recommendations
\* (movie_id, predicted_rating) pairs in non-increasing order of predicted
\* rating, equal ratings in ascending order of movie id.
C13_SortedByEstThenId ==
    (CollabCalled /\ collaborative_model.fitted /\ IndexBuilt) =>
        /\ response.outcome.kind = "return"
        /\ Len(response.outcome.value) <= response.n
        /\ \A i, j \in DOMAIN response.outcome.value : i < j =>
              \/ response.outcome.value[i][2] > response.outcome.value[j][2]
              \/ /\ response.outcome.value[i][2] = response.outcome.value[j][2]
                 /\ response.outcome.value[i][1] < response.outcome.value[j][1]

\* C14: a get_content_based_recommendations call answered while a
\* prepare_content_features call on an already built index is between its
\* two assignments has an outcome of the generation published before that
\* call began: the table it replaced read with the matrix still in place.
C14_GenerationAtomicity ==
    [][(/\ response.op = "none"
        /\ response'.op = "get_content_based_recommendations"
        /\ building.active
        /\ ~building.replaced.isNone)
       => response'.outcome \in GetContentBasedRecommendations(
              building.replaced, content_similarity_matrix, response'.id, response'.n)]_vars

\* C15: a retrain call (prepare_content_features or train_collaborative_model)
\* that raises leaves the corpus table, the similarity matrix and the
\* collaborative model exactly as they were before the call.
C15_FailedRetrainChangesNothing ==
    [][(/\ response.op = "none"
        /\ response'.op \in {"prepare_content_features", "train_collaborative_model"}
        /\ response'.outcome.kind = "raise")
       => engine_vars' = engine_vars]_vars

\* C16: in every state of the engine, a similarity matrix that is set is
\* N x N for the N rows of the corpus table that is set beside it.
C16_MatrixSquareOverCorpus ==
    content_similarity_matrix # NoMatrix =>
        /\ ~movies_df.isNone
        /\ Len(content_similarity_matrix) = Len(movies_df.ids)
        /\ \A i \in DOMAIN content_similarity_matrix :
              Len(content_similarity_matrix[i]) = Len(movies_df.ids)

\* C17: once POST /admin/load-more-movies has completed successfully, the
\* instance that GET /recommendations/{user_id} reads holds the corpus table
\* and the similarity matrix that this retrain produced.
C17_RetrainSeenOnEveryRoute ==
    (response.op = "load_more_movies" /\ response.outcome.kind = "return") =>
        /\ movies_df = main_recommender.movies_df
        /\ content_similarity_matrix = main_recommender.content_similarity_matrix

RECURSIVE Flatten(_)
Flatten(lists) ==
    IF lists = <<>> THEN <<>> ELSE Head(lists).similar \o Flatten(Tail(lists))

\* C18: when the seed loop of get_hybrid_recommendations has run to its end,
\* the seeds it queried are the last min(3, len) entries of recently_viewed in
\* the order given, each queried for n div 2 neighbours, and the content
\* candidate list is the lists returned, concatenated in seed order.
C18_SeedsAreLastThree ==
    pc = "collab" =>
        LET k == Min(SeedCount, Len(recently_viewed))
        IN  /\ Len(similar_lists) = k
            /\ \A i \in 1..k :
                  /\ similar_lists[i].seed = recently_viewed[Len(recently_viewed) - k + i]
                  /\ Returned(similar_lists[i].similar) \in
                        GetContentBasedRecommendations(movies_df, content_similarity_matrix,
                            similar_lists[i].seed, n_recommendations \div 2)
            /\ content_recs = Flatten(similar_lists)

\* Four entries viewed, the first of them not among the last three, and every
\* seed's call returned a neighbour
C18_Witness ==
    /\ pc = "collab"
    /\ Len(recently_viewed) = 4
    /\ recently_viewed[1] \notin {recently_viewed[i] : i \in 2..4}
    /\ Len(content_recs) = 3

\* C19: in a get_hybrid_recommendations call on a built index and a trained
\* model, the collaborative candidate list (the query of line 84 for n div 2
\* movies) is a list of at most n div 2 pairs, none of them for a movie of
\* recently_viewed.
C19_CollabCandidatesNotViewed ==
    (HybridCalled /\ IndexBuilt /\ collaborative_model.fitted) =>
        \A k \in GetCollaborativeRecommendations(movies_df, collaborative_model,
                                                  response.id, response.n \div 2) :
            /\ k.kind = "return"
            /\ Len(k.value) <= response.n \div 2
            /\ \A i \in DOMAIN k.value : k.value[i][1] \notin Range(response.viewed)

\* C20: train_collaborative_model on an empty ratings list completes and
\* leaves the model untrained; get_collaborative_recommendations on an
\* untrained model fails with ModelNotReady.
C20_EmptyTrainingThenNotReady ==
    /\ (response.op = "train_collaborative_model" /\ response.n = 0) =>
            (response.outcome.kind = "return" /\ ~collaborative_model.fitted)
    /\ (CollabCalled /\ ~collaborative_model.fitted) =>
            response.outcome = Raised("ModelNotReady")

RetrainOps == {"prepare_content_features", "train_collaborative_model"}

\* C22: the corpus table, the similarity matrix and the collaborative model
\* change only in a step that is a prepare_content_features or a
\* train_collaborative_model call; the three query operations and the route
\* leave them as they are, whether they return or raise.
C22_OnlyRetrainsChangeEngine ==
    [][engine_vars' # engine_vars =>
          (response.op = "none" /\ response'.op \in RetrainOps)]_vars

\* A content query has returned a neighbour on a built index beside a
\* trained model, all of which are still in place
C22_Witness ==
    /\ IndexBuilt
    /\ collaborative_model.fitted
    /\ SimilarReturned
    /\ Len(response.outcome.value) >= 1

RateOps == {"rate_movie", "rate_movie_main"}

\* C23: a rate_movie call with a rating below 1 or above 5 ends in HTTP 400,
\* one with a rating in range for a movie id without a row ends in HTTP 404,
\* and in both cases the Rating rows and every movie's average_rating and
\* rating_count are what they were before the call.
C23_RejectedRatingChangesNothing ==
    [][(response.op = "none" /\ response'.op \in RateOps) =>
          /\ (response'.rating < 1 \/ response'.rating > 5) =>
                (response'.outcome = Raised("HTTPException400") /\ db' = db)
          /\ (response'.rating \in 1..5 /\ response'.movie_id \notin RateMovies) =>
                (response'.outcome = Raised("HTTPException404") /\ db' = db)]_vars

\* A rating of 6 for a movie that has ratings was rejected with HTTP 400
C23_Witness ==
    /\ response.op = "rate_movie"
    /\ response.rating = 6
    /\ response.outcome = Raised("HTTPException400")
    /\ RowsOf(db.ratings, response.movie_id) # {}

\* C25: after a rate_movie call of api_routes.py that returns success, the
\* movie's rating_count is the number of its Rating rows, the new or changed
\* one included, average_rating is their mean and the (user, movie) pair has
\* exactly one row; and a rating in range for an existing movie that has no
\* rating yet returns success.
C25_AggregatesMatchRows ==
    [][(response.op = "none" /\ response'.op = "rate_movie") =>
          LET m == response'.movie_id
              rows == RowsOf(db'.ratings, m)
          IN  /\ response'.outcome.kind = "return" =>
                    /\ db'.movies[m].rating_count = Cardinality(rows)
                    /\ db'.movies[m].average_rating.num * Cardinality(rows)
                          = SumRatings(rows) * db'.movies[m].average_rating.den
                    /\ Cardinality({r \in rows : r.user_id = response'.user_id}) = 1
              /\ (response'.rating \in 1..5 /\ m \in RateMovies
                      /\ RowsOf(db.ratings, m) = {}) =>
                    response'.outcome.kind = "return"]_vars

\* The calls on a movie that have returned its row
PopReturned(m) == {i \in PopCalls : tasks[i].movie_id = m /\ tasks[i].result = "row"}

\* C24: in every interleaving of the calls, the committed view_count of an
\* existing movie is its initial value plus the number of calls on it that have
\* returned, so it ends at initial + k; a call for an id without a row returns
\* None and no step of it changes the database.
C24_NoLostUpdate ==
    /\ \A v \in {0, 1} :
          db.movies[1].view_count = v =>
              [](db.movies[1].view_count = v + Cardinality(PopReturned(1)))
    /\ [][\A i \in PopCalls :
            (tasks[i].movie_id \notin PopMovies /\ tasks'[i] # tasks[i]) =>
                (tasks'[i].result = "None" /\ db' = db)]_vars

\* Three calls have finished: two on movie 1, whose counter went from 1 to 3,
\* and one, for movie 2, with None
C24_Witness ==
    /\ \A i \in PopCalls : tasks[i].pc = "done"
    /\ Cardinality(PopReturned(1)) = 2
    /\ \E i \in PopCalls : tasks[i].movie_id = 2 /\ tasks[i].result = "None"
    /\ db.movies[1].view_count = 3

\* C26: a response of GET /movies/ served from movie_cache is the result of
\* the query the request itself would build: the cached entry was computed for
\* the same filters and ordering, so requests that differ in min_rating or
\* min_year being 0 or absent, or in random_seed under sort=random, get no
\* entry of one another.
C26_CachedResponseIsOwnQuery ==
    (response.op = "get_movies" /\ response.cached) =>
        response.outcome.value = BuiltQuery(response.params)

\* C27: the seeds GET /movies/recommended/ hands to content similarity are the
\* user's three most recently watched movies, the viewing rows with the
\* greatest watched_at (all of them when there are fewer than three).
C27_SeedsAreMostRecent ==
    response.op = "get_recommended_movies" =>
        Range(response.seeds) = Range(Slice(db.history[response.id], 0, SeedCount))

\* C28: GET /recommendations/{user_id} for a user with ratings returns the ids
\* get_hybrid_recommendations produced that have a movie row, in the order
\* of that list: no other id, and no two ids swapped.
C28_RouteKeepsEngineOrder ==
    (/\ response.op = "get_recommendations"
     /\ response.id \in DOMAIN db.users
     /\ db.users[response.id] # <<>>) =>
        /\ response.outcome.kind = "return"
        /\ \E h \in GetHybridRecommendations(movies_df, content_similarity_matrix,
                      collaborative_model, response.id,
                      LastK(db.users[response.id], RecentRatings), DefaultN) :
              /\ h.kind = "return"
              /\ response.outcome.value = RecommendedWithRows(h.value, db.movies)

\* The lookups whose answer is processed: by imdb_id, by title, and the details
\* of the first search hit
FetchLookups == {"omdb_id", "omdb_title", "omdb_detail"}

\* The requests of the call, in order, that were made in a retry
RetriedRequests == SelectSeq(fetch_call.requests, LAMBDA r : r.retry_count > 0)

\* The waits of attempts 2, 3 and 4
ExpectedWaits == <<1, 2, 4>>

\* C29: with answers that do not raise, fetch_imdb_data returns; it makes at
\* most four attempts (retry_count 0 to 3); every request of attempts 2, 3, 4
\* is preceded by a wait of 1, 2, 4; a call that returns after a lookup
\* answered Response == "True" returns the processed data of the first such
\* answer, which is its last request; a call none of whose lookups answered
\* "True" returns None, after four attempts.
C29_FetchTerminatesWithBackoff ==
    /\ <>(fetch_call.pc = "done")
    /\ [](/\ \A i \in DOMAIN fetch_call.requests :
                fetch_call.requests[i].retry_count \in 0..3
          /\ Len(fetch_call.sleeps) = Len(RetriedRequests)
          /\ \A i \in DOMAIN RetriedRequests :
                fetch_call.sleeps[i] = ExpectedWaits[RetriedRequests[i].retry_count]
          /\ \A i \in DOMAIN fetch_call.requests :
                (fetch_call.requests[i].step \in FetchLookups
                    /\ fetch_call.requests[i].answer = "True") =>
                   (/\ i = Len(fetch_call.requests)
                    /\ fetch_call.pc = "done"
                    /\ fetch_call.result \in {"data", "None"})
          /\ (fetch_call.pc = "done"
                /\ \A i \in DOMAIN fetch_call.requests :
                      ~(fetch_call.requests[i].step \in FetchLookups
                          /\ fetch_call.requests[i].answer = "True")) =>
                (/\ fetch_call.result = "None"
                 /\ {r.retry_count : r \in Range(fetch_call.requests)} = 0..3))

\* The call returned data from the details of a search hit in its fourth
\* attempt, after three attempts without an answer
C29_Witness ==
    /\ fetch_call.pc = "done"
    /\ fetch_call.result = "data"
    /\ fetch_call.retry_count = 3
    /\ fetch_call.requests[Len(fetch_call.requests)].step = "omdb_detail"
    /\ fetch_call.sleeps[Len(fetch_call.sleeps)] = 4

\* C30: the movies table never holds two rows with the same title and
\* release_year, whatever the interleaving of the coroutines of a batch.
C30_NoDuplicateTitleYear ==
    \A i, j \in DOMAIN db.movies :
        db.movies[i].title_year = db.movies[j].title_year => i = j
====
